---------------------------- MODULE Spec2Model ----------------------------
(***************************************************************************)
(* dashboard.py: a Streamlit script.  Every widget interaction re-runs     *)
(* main() from top to bottom.  The state kept between runs is the         *)
(* environment (the workbook on disk, the uploaded file), the widget      *)
(* values of the session, and what the last run displayed.                *)
(*                                                                         *)
(* A table (DataFrame) is [columns, rows]: rows is a sequence of          *)
(* functions from the table's columns to cells.  A text cell is a string, *)
(* NaN being the missing value; a launch-year cell is a record            *)
(* [t, v]: t = "num" (a number, v in tenths), "str" (text that is not a   *)
(* number) or "nan" (missing).                                            *)
(***************************************************************************)
EXTENDS Integers, Sequences, FiniteSets, TLC

VARIABLES env, session, out

vars == <<env, session, out>>

-----------------------------------------------------------------------------
(* Bounds of the model *)

\* rows of a sampled small table
MaxRows == 2
\* full pages, of each page size, that a bulk table spans
MaxFullPages == 1

-----------------------------------------------------------------------------
(* Column names and cells *)

rx_otc_name == "RX-OTC - Molecule"
corp_name == "Corporation"
year_name == "Suma de Molecule Launch Year"

ExpectedColumns ==
    {"Region", "Country", "Molecule", "Product", corp_name, rx_otc_name,
     year_name, "ATC1"}

NaN == "NaN"
None == "None"

\* a launch-year cell holding the number tenths/10
Num(tenths) == [t |-> "num", v |-> tenths]
NumCell(year) == Num(10 * year)
StrCell == [t |-> "str", v |-> 0]
NaNCell == [t |-> "nan", v |-> 0]

\* pd.to_numeric(..., errors='coerce') on one cell: text that is no number
\* and missing cells become NaN
to_numeric(cell) ==
    IF cell.t = "num" THEN [isnum |-> TRUE, v |-> cell.v]
    ELSE [isnum |-> FALSE, v |-> 0]

\* int(x) of a non-negative number held in tenths
int(tenths) == tenths \div 10

-----------------------------------------------------------------------------
(* DataFrame operations *)

\* pd.DataFrame()
EmptyFrame == [columns |-> {}, rows |-> <<>>]

\* df.empty taken as "no columns": a frame without rows is not empty
empty_no_columns(df) == df.columns = {}

\* df.empty: no rows or no columns
empty(df) == Len(df.rows) = 0 \/ df.columns = {}

\* df.copy(): a fresh object holding the same table.  A frame reference is
\* [obj, val]: obj = "arg" is the caller's object, "new" one made here.
df_copy(df) == [obj |-> "new", val |-> df]

\* the caller's frame after a callee worked on the reference ref
after_call(df, ref) == IF ref.obj = "arg" THEN ref.val ELSE df

\* df[col].isin(values): a boolean mask over the rows; NaN is in no selection
isin(df, col, values) ==
    [i \in 1..Len(df.rows) |-> df.rows[i][col] \in values]

\* df[mask]: a new frame of the rows at which the mask holds, in order
select_rows(df, mask) ==
    LET keep(i) == mask[i]
        kept == SelectSeq([i \in 1..Len(df.rows) |-> i], keep)
    IN  [columns |-> df.columns,
         rows |-> [k \in 1..Len(kept) |-> df.rows[kept[k]]]]

\* df[col].dropna().unique(), as a set
unique_values(df, col) ==
    {df.rows[i][col] : i \in 1..Len(df.rows)} \ {NaN}

\* df[col].nunique()
nunique(df, col) == Cardinality(unique_values(df, col))

\* pd.to_numeric(df[col], errors='coerce').dropna(), as the set of numbers
numeric_values(df, col) ==
    {to_numeric(df.rows[i][col]).v :
        i \in {j \in 1..Len(df.rows) : to_numeric(df.rows[j][col]).isnum}}

\* the member of a one-element set: Only({f(v) : v \in {e}}) is f(e) with e
\* evaluated once, the way a statement's result is bound to a local name
Only(S) == CHOOSE x \in S : TRUE

SetMin(S) == CHOOSE x \in S : \A y \in S : x <= y
SetMax(S) == CHOOSE x \in S : \A y \in S : x >= y

-----------------------------------------------------------------------------
(* Widgets.  A widget returns the value the session holds for it when the  *)
(* previous run rendered it with the same parameters (options, bounds),   *)
(* and its default otherwise.  rendered maps each widget rendered by a    *)
(* run to its parameters.                                                  *)

NoWidgets == [k \in {} |-> {}]

widget(rendered, key, params, value, default) ==
    IF key \in DOMAIN rendered /\ rendered[key] = params THEN value
    ELSE default

-----------------------------------------------------------------------------
(* create_filters *)

\* the country options taken from the whole table, whatever regions are
\* selected
country_options_all(df, selected_regions) ==
    IF "Country" \in df.columns THEN unique_values(df, "Country") ELSE {}

\* the country options: the countries of the selected regions' rows, of all
\* rows when no region is selected
country_options(df, selected_regions) ==
    IF selected_regions # {} /\ "Country" \in df.columns
        THEN unique_values(select_rows(df, isin(df, "Region", selected_regions)),
                           "Country")
        ELSE IF "Country" \in df.columns THEN unique_values(df, "Country")
        ELSE {}

\* what st.session_state[key] = [] does for a key whose widget the run has
\* already instantiated: Streamlit refuses the write with a
\* StreamlitAPIException; "stored" is the write as the statement reads
SessionWrites == {"stored", "StreamlitAPIException"}

create_filters(df, ses, rendered, clear_pressed, write) ==
    LET has(c) == c \in df.columns
        regiones == IF has("Region") THEN unique_values(df, "Region") ELSE {}
        selected_regions ==
            IF has("Region")
            THEN widget(rendered, "region_filter", regiones,
                        ses.region_filter, {})
            ELSE {}
        paises == country_options(df, selected_regions)
        selected_countries ==
            widget(rendered, "country_filter", paises, ses.country_filter, {})
        moleculas ==
            IF has("Molecule") THEN unique_values(df, "Molecule") ELSE {}
        selected_molecules ==
            IF has("Molecule")
            THEN widget(rendered, "molecule_filter", moleculas,
                        ses.molecule_filter, {})
            ELSE {}
        rx_otc_values ==
            IF has(rx_otc_name) THEN unique_values(df, rx_otc_name) ELSE {}
        selected_rx_otc ==
            IF has(rx_otc_name)
            THEN widget(rendered, "rx_otc_filter", rx_otc_values,
                        ses.rx_otc_filter, {})
            ELSE {}
        corporaciones ==
            IF has(corp_name) THEN unique_values(df, corp_name) ELSE {}
        selected_corporations ==
            IF has(corp_name)
            THEN widget(rendered, "corp_filter", corporaciones,
                        ses.corp_filter, {})
            ELSE {}
        years == IF has(year_name) THEN numeric_values(df, year_name) ELSE {}
        has_slider == has(year_name) /\ years # {}
        min_year == IF has_slider THEN int(SetMin(years)) ELSE 2000
        max_year == IF has_slider THEN int(SetMax(years)) ELSE 2025
        year_range ==
            IF has_slider
            THEN widget(rendered, "year_range", <<min_year, max_year>>,
                        ses.year_range, <<min_year, max_year>>)
            ELSE <<2000, 2025>>
        shown ==
            [k \in ({"country_filter"}
                    \cup (IF has("Region") THEN {"region_filter"} ELSE {})
                    \cup (IF has("Molecule") THEN {"molecule_filter"} ELSE {})
                    \cup (IF has(rx_otc_name) THEN {"rx_otc_filter"} ELSE {})
                    \cup (IF has(corp_name) THEN {"corp_filter"} ELSE {})
                    \cup (IF has_slider THEN {"year_range"} ELSE {})) |->
                CASE k = "region_filter" -> regiones
                  [] k = "country_filter" -> paises
                  [] k = "molecule_filter" -> moleculas
                  [] k = "rx_otc_filter" -> rx_otc_values
                  [] k = "corp_filter" -> corporaciones
                  [] OTHER -> <<min_year, max_year>>]
        \* the clear button: st.session_state[key] = [] for the keys the
        \* session holds, then st.rerun(); a refused write ends the run
        cleared_all == clear_pressed /\ write = "stored"
        cleared(key, value) == IF key \in DOMAIN shown THEN {} ELSE value
    IN  [filters |->
            [regions |-> selected_regions,
             countries |-> selected_countries,
             molecules |-> selected_molecules,
             rx_otc |-> selected_rx_otc,
             corporations |-> selected_corporations,
             year_range |-> year_range,
             rx_otc_column |-> IF has(rx_otc_name) THEN rx_otc_name ELSE None,
             corp_column |-> IF has(corp_name) THEN corp_name ELSE None,
             year_column |-> IF has(year_name) THEN year_name ELSE None],
         rendered |-> shown,
         rerun |-> cleared_all,
         raised |-> IF clear_pressed /\ write # "stored" THEN write ELSE None,
         session |->
            [ses EXCEPT
                !.region_filter =
                    IF cleared_all THEN cleared("region_filter", selected_regions)
                    ELSE selected_regions,
                !.country_filter =
                    IF cleared_all THEN cleared("country_filter", selected_countries)
                    ELSE selected_countries,
                !.molecule_filter =
                    IF cleared_all THEN cleared("molecule_filter", selected_molecules)
                    ELSE selected_molecules,
                !.rx_otc_filter =
                    IF cleared_all THEN cleared("rx_otc_filter", selected_rx_otc)
                    ELSE selected_rx_otc,
                !.corp_filter =
                    IF cleared_all THEN cleared("corp_filter", selected_corporations)
                    ELSE selected_corporations,
                !.year_range = year_range]]

-----------------------------------------------------------------------------
(* apply_filters *)

\* the year mask with the bounds of the range left out
year_in_range_strict(cell, year_range) ==
    LET y == to_numeric(cell)
    IN  y.isnum /\ y.v > 10 * year_range[1] /\ y.v < 10 * year_range[2]

\* (year_values >= lo) & (year_values <= hi) on one cell; NaN compares false
year_in_range(cell, year_range) ==
    LET y == to_numeric(cell)
    IN  y.isnum /\ y.v >= 10 * year_range[1] /\ y.v <= 10 * year_range[2]

\* the year mask: year_in_range on every row's launch year
year_mask(df, col, year_range) ==
    [i \in 1..Len(df.rows) |-> year_in_range(df.rows[i][col], year_range)]

\* if active: frame = frame[frame[col].isin(values)]
filter_isin(frame, active, col, values) ==
    IF active THEN select_rows(frame, isin(frame, col, values)) ELSE frame

\* if active: frame = frame[(year_values >= lo) & (year_values <= hi)]
filter_year(frame, active, col, year_range) ==
    IF active THEN select_rows(frame, year_mask(frame, col, year_range))
    ELSE frame

\* apply_filters with the country rows taken from df, not from filtered_df:
\* the region filter is lost when countries are selected
apply_filters_from_df(df, filters) ==
    LET s1 == filter_isin(df, filters.regions # {} /\ "Region" \in df.columns,
                          "Region", filters.regions)
        s2 == IF filters.countries # {} /\ "Country" \in df.columns
              THEN filter_isin(df, TRUE, "Country", filters.countries)
              ELSE s1
        s3 == filter_isin(s2, filters.molecules # {} /\ "Molecule" \in df.columns,
                          "Molecule", filters.molecules)
        s4 == filter_isin(s3, filters.rx_otc # {} /\ filters.rx_otc_column # None,
                          filters.rx_otc_column, filters.rx_otc)
        s5 == filter_isin(s4, filters.corporations # {}
                              /\ filters.corp_column # None,
                          filters.corp_column, filters.corporations)
        s6 == filter_year(s5, filters.year_column # None, filters.year_column,
                          filters.year_range)
    IN  [df |-> df, filtered_df |-> s6]

\* apply_filters without df.copy(), dropping the rows in place
apply_filters_inplace(df, filters) ==
    LET kept == apply_filters_from_df(df, [filters EXCEPT !.countries = {}])
        s == filter_isin(kept.filtered_df,
                         filters.countries # {} /\ "Country" \in df.columns,
                         "Country", filters.countries)
    IN  [df |-> s, filtered_df |-> s]

apply_filters(df, filters) ==
    LET filtered_df == df_copy(df)
        s1 == filter_isin(filtered_df.val,
                          filters.regions # {} /\ "Region" \in df.columns,
                          "Region", filters.regions)
        s2 == filter_isin(s1, filters.countries # {} /\ "Country" \in df.columns,
                          "Country", filters.countries)
        s3 == filter_isin(s2, filters.molecules # {} /\ "Molecule" \in df.columns,
                          "Molecule", filters.molecules)
        s4 == filter_isin(s3, filters.rx_otc # {} /\ filters.rx_otc_column # None,
                          filters.rx_otc_column, filters.rx_otc)
        s5 == filter_isin(s4, filters.corporations # {}
                              /\ filters.corp_column # None,
                          filters.corp_column, filters.corporations)
        s6 == filter_year(s5, filters.year_column # None, filters.year_column,
                          filters.year_range)
    IN  [df |-> after_call(df, filtered_df), filtered_df |-> s6]

-----------------------------------------------------------------------------
(* The five tab renderers.  Each returns what it displayed (shown), the    *)
(* aggregates it evaluated (computed), the columns it read (reads), the   *)
(* exception it raised (raised, None when it completed) and the caller's  *)
(* frame after the call (df).                                              *)

NoMetrics == [k \in {} |-> 0]

TabOut(name, df, shown, computed, reads, raised, metrics) ==
    [name |-> name, df |-> df, shown |-> shown, computed |-> computed,
     reads |-> reads, raised |-> raised, metrics |-> metrics, n |-> Len(df.rows)]

\* a read of a column the frame does not have raises KeyError
key_error(df, reads) == IF reads \subseteq df.columns THEN None ELSE "KeyError"

\* the column filters[...] names, when it names one
column_of(name) == IF name = None THEN {} ELSE {name}

create_resumen_tab(df, filters) ==
    IF empty(df)
    THEN TabOut("resumen", df, {"warning:no_data"}, {}, {}, None, NoMetrics)
    ELSE
    LET has(c) == c \in df.columns
        metric(label) ==
            CASE label = "Total Productos" -> [na |-> FALSE, n |-> Len(df.rows)]
              [] label = "Moleculas Unicas" ->
                    IF has("Molecule")
                    THEN [na |-> FALSE, n |-> nunique(df, "Molecule")]
                    ELSE [na |-> TRUE, n |-> 0]
              [] label = "Paises" ->
                    IF has("Country")
                    THEN [na |-> FALSE, n |-> nunique(df, "Country")]
                    ELSE [na |-> TRUE, n |-> 0]
              [] OTHER ->
                    IF filters.corp_column # None
                    THEN [na |-> FALSE, n |-> nunique(df, filters.corp_column)]
                    ELSE [na |-> TRUE, n |-> 0]
        metrics ==
            [l \in {"Total Productos", "Moleculas Unicas", "Paises",
                    "Corporaciones"} |-> metric(l)]
        reads ==
            (IF has("Molecule") THEN {"Molecule"} ELSE {})
            \cup (IF has("Country") THEN {"Country"} ELSE {})
            \cup column_of(filters.corp_column)
            \cup column_of(filters.rx_otc_column)
            \cup column_of(filters.year_column)
        shown ==
            {"metric:Total Productos", "metric:Moleculas Unicas",
             "metric:Paises", "metric:Corporaciones"}
            \cup (IF filters.rx_otc_column # None THEN {"chart:rx_otc_pie"}
                  ELSE {"info:rx_otc_missing"})
            \cup (IF filters.year_column # None THEN {"chart:year_histogram"}
                  ELSE {"info:year_missing"})
            \cup (IF has("Country") THEN {"chart:top_countries"} ELSE {})
        computed ==
            {"len"}
            \cup (IF has("Molecule") THEN {"nunique:Molecule"} ELSE {})
            \cup (IF has("Country")
                  THEN {"nunique:Country", "groupby:Country"} ELSE {})
            \cup (IF filters.corp_column # None THEN {"nunique:corp"} ELSE {})
            \cup (IF filters.rx_otc_column # None THEN {"value_counts:rx_otc"}
                  ELSE {})
            \cup (IF filters.year_column # None THEN {"to_numeric:year"} ELSE {})
    IN  TabOut("resumen", df, shown, computed, reads, key_error(df, reads),
               metrics)

\* df.groupby(by).agg(agg_dict): pandas builds the result by concatenating
\* one aggregate per key of agg_dict, and raises ValueError ("No objects to
\* concatenate") when agg_dict is empty
groupby_agg(agg_dict) == IF agg_dict = {} THEN "ValueError" ELSE None

create_pais_tab(df, filters) ==
    IF empty(df)
    THEN TabOut("pais", df, {"warning:no_data"}, {}, {}, None, NoMetrics)
    ELSE IF "Country" \notin df.columns
    THEN TabOut("pais", df, {"warning:country_missing"}, {}, {}, None, NoMetrics)
    ELSE
    LET has(c) == c \in df.columns
        col1 == IF has("Region") THEN {"chart:treemap"}
                ELSE {"info:region_missing"}
        col2 == IF filters.rx_otc_column # None THEN {"chart:country_rx_otc"}
                ELSE {"info:rx_otc_missing"}
        agg_dict ==
            (IF has("Molecule") THEN {"Molecule"} ELSE {})
            \cup (IF has("Product") THEN {"Product"} ELSE {})
            \cup column_of(filters.corp_column)
        agg_raised == groupby_agg(agg_dict)
        reads ==
            {"Country"}
            \cup (IF has("Region") THEN {"Region"} ELSE {})
            \cup column_of(filters.rx_otc_column)
            \cup agg_dict
            \cup (IF agg_raised = None THEN column_of(filters.year_column)
                  ELSE {})
        computed ==
            (IF has("Region") THEN {"groupby:Region,Country"} ELSE {})
            \cup (IF filters.rx_otc_column # None
                  THEN {"groupby:Country,rx_otc"} ELSE {})
            \cup {"groupby:Country.agg"}
            \cup (IF agg_raised = None
                  THEN {"groupby:Country.size"}
                       \cup (IF filters.year_column # None
                             THEN {"groupby:Country.year_mean"} ELSE {})
                  ELSE {})
        shown ==
            col1 \cup col2 \cup {"subheader:analisis_pais"}
            \cup (IF agg_raised = None THEN {"table:country_analysis"} ELSE {})
    IN  TabOut("pais", df, shown, computed, reads,
               IF key_error(df, reads) # None THEN "KeyError" ELSE agg_raised,
               NoMetrics)

\* timeline_data[col] = pd.to_numeric(timeline_data[col], errors='coerce'),
\* written into the object ref refers to
coerce_column(ref, col) ==
    LET coerced(row) ==
            [c \in DOMAIN row |->
                IF c = col
                THEN IF to_numeric(row[c]).isnum THEN row[c] ELSE NaNCell
                ELSE row[c]]
    IN  [ref EXCEPT !.val.rows =
            [i \in 1..Len(ref.val.rows) |-> coerced(ref.val.rows[i])]]

\* timeline_data.dropna(subset=[col]): a new frame
dropna(df, col) ==
    select_rows(df, [i \in 1..Len(df.rows) |-> to_numeric(df.rows[i][col]).isnum])

create_moleculas_tab(df, filters) ==
    IF empty(df)
    THEN TabOut("moleculas", df, {"warning:no_data"}, {}, {}, None, NoMetrics)
    ELSE IF "Molecule" \notin df.columns
    THEN TabOut("moleculas", df, {"warning:molecule_missing"}, {}, {}, None,
                NoMetrics)
    ELSE
    LET has(c) == c \in df.columns
        with_year == filters.year_column # None
        timeline_ref ==
            IF with_year THEN coerce_column(df_copy(df), filters.year_column)
            ELSE df_copy(df)
        timeline_data ==
            IF with_year THEN dropna(timeline_ref.val, filters.year_column)
            ELSE EmptyFrame
        \* more than 1000 points are sampled down to 1000
        points ==
            IF Len(timeline_data.rows) > 1000 THEN 1000
            ELSE Len(timeline_data.rows)
        reads ==
            {"Molecule"}
            \cup column_of(filters.year_column)
            \cup (IF with_year THEN column_of(filters.rx_otc_column) ELSE {})
            \cup (IF has("ATC1") THEN {"ATC1"} ELSE {})
        shown ==
            (IF with_year THEN {"chart:timeline"} ELSE {})
            \cup {"subheader:top_moleculas", "chart:top_moleculas"}
            \cup (IF has("ATC1") THEN {"subheader:atc1", "chart:atc1_pie"}
                  ELSE {"info:atc1_missing"})
        computed ==
            (IF with_year THEN {"to_numeric:year"} ELSE {})
            \cup {"groupby:Molecule"}
            \cup (IF has("ATC1") THEN {"value_counts:ATC1"} ELSE {})
    IN  TabOut("moleculas", after_call(df, timeline_ref), shown, computed,
               reads, key_error(df, reads),
               [k \in {"timeline_points"} |-> points])

create_corporaciones_tab(df, filters) ==
    IF empty(df)
    THEN TabOut("corporaciones", df, {"warning:no_data"}, {}, {}, None,
                NoMetrics)
    ELSE IF filters.corp_column = None
    THEN TabOut("corporaciones", df, {"warning:corporation_missing"}, {}, {},
                None, NoMetrics)
    ELSE
    LET has(c) == c \in df.columns
        agg_dict ==
            (IF has("Molecule") THEN {"Molecule"} ELSE {})
            \cup (IF has("Country") THEN {"Country"} ELSE {})
            \cup (IF has("Product") THEN {"Product"} ELSE {})
        agg_raised == groupby_agg(agg_dict)
        reads == {filters.corp_column} \cup agg_dict
        computed ==
            {"groupby:corp.agg"}
            \cup (IF agg_raised = None THEN {"groupby:corp.size"} ELSE {})
        shown ==
            IF agg_raised # None THEN {}
            ELSE (IF {"Molecule", "Country"} \subseteq agg_dict
                  THEN {"chart:corp_scatter"} ELSE {})
                 \cup {"chart:top_corps", "subheader:comparacion",
                       "table:corp_summary"}
    IN  TabOut("corporaciones", df, shown, computed, reads,
               IF key_error(df, reads) # None THEN "KeyError" ELSE agg_raised,
               NoMetrics)

-----------------------------------------------------------------------------
(* create_tabla_tab: header, export and the paginated table *)

\* the options of the page-size selectbox; "Todos" is the one that is no number
PageSizes == {"50", "100", "500", "1000", "Todos"}

page_size(option) ==
    CASE option = "50" -> 50
      [] option = "100" -> 100
      [] option = "500" -> 500
      [] option = "1000" -> 1000

\* df.to_excel(writer, sheet_name='Datos', index=False): the rows written
to_excel(df) == df.rows

\* the export written from the page shown
excel_source_page(df, df_display) == df_display

\* the frame the export writes: df, the table the tab was given, whatever
\* page of it is shown
excel_source(df, df_display) == df

\* df.iloc[inicio:fin]
iloc(df, inicio, fin) ==
    [columns |-> df.columns, rows |-> SubSeq(df.rows, inicio + 1, fin)]

Min(a, b) == IF a <= b THEN a ELSE b

\* len(df) // registros_por_pagina + 1: one page too many for a table of
\* whole pages
page_count_floor(n, por_pagina) == n \div por_pagina + 1

\* total_paginas = (len(df) - 1) // registros_por_pagina + 1
page_count(n, por_pagina) == (n - 1) \div por_pagina + 1

\* inicio = (pagina_actual - 1) * registros_por_pagina
page_inicio(pagina, por_pagina) == (pagina - 1) * por_pagina

\* fin = min(inicio + registros_por_pagina, len(df))
page_fin(n, pagina, por_pagina) ==
    Min(page_inicio(pagina, por_pagina) + por_pagina, n)

NoExport == [made |-> FALSE, rows |-> <<>>]

\* the table tab when it was not rendered
NoTabla ==
    [tab |-> TabOut("tabla", EmptyFrame, {}, {}, {}, None, NoMetrics),
     export |-> NoExport, rendered |-> NoWidgets,
     registros_por_pagina |-> "100", total_paginas |-> 1,
     pagina_actual |-> 1, inicio |-> 0, fin |-> 0,
     df_display |-> EmptyFrame]

create_tabla_tab(df, ses, rendered, export_pressed) ==
    IF empty(df)
    THEN [NoTabla EXCEPT
             !.tab = TabOut("tabla", df, {"warning:no_data"}, {}, {}, None,
                            NoMetrics)]
    ELSE
    LET registros_por_pagina ==
            widget(rendered, "registros_por_pagina", PageSizes,
                   ses.registros_por_pagina, "100")
        todos == registros_por_pagina = "Todos"
        total_paginas ==
            IF ~todos
            THEN page_count(Len(df.rows), page_size(registros_por_pagina))
            ELSE 1
        pagina_actual ==
            IF ~todos
            THEN widget(rendered, "pagina_actual", total_paginas,
                        ses.pagina_actual, 1)
            ELSE 1
        inicio ==
            IF todos THEN 0
            ELSE page_inicio(pagina_actual, page_size(registros_por_pagina))
        fin ==
            IF todos THEN Len(df.rows)
            ELSE page_fin(Len(df.rows), pagina_actual,
                          page_size(registros_por_pagina))
        df_display == IF todos THEN df ELSE iloc(df, inicio, fin)
        export ==
            IF export_pressed
            THEN [made |-> TRUE, rows |-> to_excel(excel_source(df, df_display))]
            ELSE NoExport
        shown ==
            {"subheader:datos_filtrados", "write:total", "write:columnas",
             "table:df_display"}
            \cup (IF export_pressed THEN {"download_button"} ELSE {})
            \cup (IF todos THEN {"info:todos"} ELSE {"info:pagina"})
        computed ==
            {"len"} \cup (IF todos THEN {} ELSE {"total_paginas", "iloc"})
                    \cup (IF export_pressed THEN {"to_excel"} ELSE {})
    IN  [tab |-> TabOut("tabla", df, shown, computed, {}, None,
                        [k \in {"Datos Filtrados"} |-> Len(df.rows)]),
         export |-> export,
         rendered |->
            [k \in {"registros_por_pagina"}
                   \cup (IF todos THEN {} ELSE {"pagina_actual"}) |->
                IF k = "registros_por_pagina" THEN PageSizes
                ELSE total_paginas],
         registros_por_pagina |-> registros_por_pagina,
         total_paginas |-> total_paginas,
         pagina_actual |-> pagina_actual,
         inicio |-> inicio, fin |-> fin,
         df_display |-> df_display]

-----------------------------------------------------------------------------
(* main: one run of the script *)

SheetOptions == {"Base en ingles", "Base en espanol"}

\* a file is [state, sheets]: state "ok" (a workbook), "missing", "unreadable"
\* or "none" (nothing uploaded); sheets maps the workbook's sheet names to tables
NoFile == [state |-> "none", sheets |-> [k \in {} |-> EmptyFrame]]

\* read_excel falling back to the workbook's first sheet when the named
\* sheet is not there
read_excel_any_sheet(file, sheet_name) ==
    IF file.state = "missing"
    THEN [raised |-> "FileNotFoundError", df |-> EmptyFrame]
    ELSE IF file.state # "ok"
    THEN [raised |-> "Exception", df |-> EmptyFrame]
    ELSE IF sheet_name \notin DOMAIN file.sheets
    THEN [raised |-> None,
          df |-> file.sheets[CHOOSE k \in DOMAIN file.sheets : TRUE]]
    ELSE [raised |-> None, df |-> file.sheets[sheet_name]]

\* pd.read_excel(file, sheet_name=...) inside try/except: the table, or the
\* exception caught (no such file, not a workbook, no such sheet)
read_excel(file, sheet_name) ==
    IF file.state = "missing"
    THEN [raised |-> "FileNotFoundError", df |-> EmptyFrame]
    ELSE IF file.state # "ok"
    THEN [raised |-> "Exception", df |-> EmptyFrame]
    ELSE IF sheet_name \notin DOMAIN file.sheets
    THEN [raised |-> "ValueError", df |-> EmptyFrame]
    ELSE [raised |-> None, df |-> file.sheets[sheet_name]]

DefaultSession ==
    [sheet_option |-> "Base en ingles",
     use_default_file |-> TRUE,
     uploaded_file |-> NoFile,
     region_filter |-> {}, country_filter |-> {}, molecule_filter |-> {},
     rx_otc_filter |-> {}, corp_filter |-> {},
     year_range |-> <<2000, 2025>>,
     registros_por_pagina |-> "100",
     pagina_actual |-> 1]

NoFilters ==
    [regions |-> {}, countries |-> {}, molecules |-> {}, rx_otc |-> {},
     corporations |-> {}, year_range |-> <<2000, 2025>>,
     rx_otc_column |-> None, corp_column |-> None, year_column |-> None]

NoBanner == [shown |-> FALSE, n |-> 0, total |-> 0]

\* f overridden by g where g is defined
Merge(f, g) ==
    [k \in DOMAIN f \cup DOMAIN g |-> IF k \in DOMAIN g THEN g[k] ELSE f[k]]

\* the sidebar's file widgets and the load (lines 483-521)
load_data(disk, ses, rendered) ==
    LET uploaded_file ==
            IF ses.use_default_file THEN NoFile
            ELSE widget(rendered, "file_uploader", "xlsx", ses.uploaded_file,
                        NoFile)
        read ==
            IF ses.use_default_file THEN read_excel(disk, ses.sheet_option)
            ELSE IF uploaded_file.state # "none"
            THEN read_excel(uploaded_file, ses.sheet_option)
            ELSE [raised |-> None, df |-> EmptyFrame]
        messages ==
            IF ~ses.use_default_file /\ uploaded_file.state = "none"
            THEN {"sidebar.warning:upload"}
            ELSE IF read.raised # None THEN {"sidebar.error"}
            ELSE {"sidebar.success"}
    IN  [df |-> read.df,
         failed |-> read.raised # None
                    \/ (~ses.use_default_file /\ uploaded_file.state = "none"),
         called |-> IF ses.use_default_file \/ uploaded_file.state # "none"
                    THEN <<"read_excel">> ELSE <<>>,
         messages |-> messages,
         uploaded_file |-> uploaded_file,
         rendered |->
            [k \in {"sheet_option", "use_default_file"}
                   \cup (IF ses.use_default_file THEN {} ELSE {"file_uploader"})
             |-> IF k = "sheet_option" THEN "sheets"
                 ELSE IF k = "use_default_file" THEN "checkbox" ELSE "xlsx"]]

\* what a run keeps of a renderer's result: all but the frame
display(tab) == [k \in DOMAIN tab \ {"df"} |-> tab[k]]

\* what main keeps of the five renderers' results: the tabs up to the first
\* that raised.  r1..r4 and t5 are the renderers' results on the frame main
\* holds as filtered_df; same_frame says they left it as it was
tabs_out(filtered_df, ses, r1, r2, r3, r4, t5) ==
    LET all == <<r1, r2, r3, r4, t5.tab>>
        count ==
            IF r1.raised # None THEN 1
            ELSE IF r2.raised # None THEN 2
            ELSE IF r3.raised # None THEN 3
            ELSE IF r4.raised # None THEN 4
            ELSE 5
    IN  [tabs |-> [i \in 1..count |-> display(all[i])],
         same_frame |-> \A i \in 1..count : all[i].df = filtered_df,
         raised |-> all[count].raised,
         tabla |-> IF count = 5 THEN [t5 EXCEPT !.tab = display(t5.tab)]
                   ELSE [NoTabla EXCEPT
                            !.tab = display(NoTabla.tab),
                            !.registros_por_pagina = ses.registros_por_pagina,
                            !.pagina_actual = ses.pagina_actual]]

\* the five tabs in order, each called on filtered_df
render_tabs(filtered_df, filters, ses, rendered, export_pressed) ==
    tabs_out(filtered_df, ses,
             create_resumen_tab(filtered_df, filters),
             create_pais_tab(filtered_df, filters),
             create_moleculas_tab(filtered_df, filters),
             create_corporaciones_tab(filtered_df, filters),
             create_tabla_tab(filtered_df, ses, rendered, export_pressed))

\* the run from the banner on: filtered_df is shown and the tabs rendered
main_tabs(ses, rendered, load, cf, af, rt) ==
    [rerun |-> FALSE,
     session |->
        [cf.session EXCEPT
            !.uploaded_file = load.uploaded_file,
            !.registros_por_pagina = rt.tabla.registros_por_pagina,
            !.pagina_actual = rt.tabla.pagina_actual],
     out |-> [status |-> IF rt.raised = None THEN "ok" ELSE "exception",
              load_failed |-> FALSE,
              messages |-> load.messages \cup {"success:loaded", "info:banner"},
              called |-> load.called
                         \o <<"create_filters", "apply_filters">>
                         \o [i \in 1..Len(rt.tabs) |-> rt.tabs[i].name],
              df |-> af.df,
              filters |-> cf.filters,
              \* an uncaught exception keeps the widgets the run did not reach
              rendered |->
                 IF rt.raised = None
                 THEN Merge(load.rendered, Merge(cf.rendered, rt.tabla.rendered))
                 ELSE Merge(rendered, Merge(load.rendered, cf.rendered)),
              same_frame |-> rt.same_frame,
              filtered_df |-> af.filtered_df,
              banner |-> [shown |-> TRUE, n |-> Len(af.filtered_df.rows),
                          total |-> Len(load.df.rows)],
              tabs |-> rt.tabs,
              tabla |-> rt.tabla,
              raised |-> rt.raised,
              reruns |-> 0]]

\* the run from create_filters' return on: a rerun asked for or a refused
\* write ends it, else the filters are applied and the tabs rendered
main_filters(ses, rendered, button, load, cf) ==
    IF cf.rerun \/ cf.raised # None
    THEN [rerun |-> cf.rerun,
          session |-> [cf.session EXCEPT
                          !.uploaded_file = load.uploaded_file],
          out |-> [status |-> IF cf.rerun THEN "rerun" ELSE "exception",
                   load_failed |-> FALSE,
                   messages |-> load.messages \cup {"success:loaded"},
                   called |-> load.called \o <<"create_filters">>,
                   df |-> load.df,
                   filters |-> cf.filters,
                   \* a run cut short keeps the widgets it did not reach
                   rendered |-> Merge(rendered, Merge(load.rendered, cf.rendered)),
                   filtered_df |-> EmptyFrame,
                   banner |-> NoBanner,
                   tabs |-> <<>>,
                   tabla |-> [NoTabla EXCEPT
                                !.tab = display(NoTabla.tab),
                                !.registros_por_pagina = ses.registros_por_pagina,
                                !.pagina_actual = ses.pagina_actual],
                   same_frame |-> TRUE,
                   raised |-> cf.raised,
                   reruns |-> 0]]
    ELSE Only({main_tabs(ses, rendered, load, cf, af,
                         render_tabs(af.filtered_df, cf.filters, ses, rendered,
                                     button = "export")) :
                  af \in {apply_filters(load.df, cf.filters)}})

\* the run from the load on: an empty table ends it with the warning
main_load(ses, rendered, button, write, load) ==
    IF empty(load.df)
    THEN [rerun |-> FALSE,
          session |->
            [DefaultSession EXCEPT
                !.sheet_option = ses.sheet_option,
                !.use_default_file = ses.use_default_file,
                !.uploaded_file = load.uploaded_file],
          out |-> [status |-> "warning",
                   load_failed |-> load.failed,
                   messages |-> load.messages \cup {"warning:no_data", "info:instrucciones"},
                   called |-> load.called,
                   df |-> load.df,
                   filters |-> NoFilters,
                   rendered |-> load.rendered,
                   filtered_df |-> EmptyFrame,
                   banner |-> NoBanner,
                   tabs |-> <<>>,
                   tabla |-> [NoTabla EXCEPT !.tab = display(NoTabla.tab)],
                   same_frame |-> TRUE,
                   raised |-> None,
                   reruns |-> 0]]
    ELSE Only({main_filters(ses, rendered, button, load, cf) :
                  cf \in {create_filters(load.df, ses, rendered,
                                         button = "clear", write)}})

main(e, ses, rendered, button, write) ==
    Only({main_load(ses, rendered, button, write, load) :
             load \in {load_data(e.disk, ses, rendered)}})

\* the clear button without st.rerun(): the run goes on with the selections
\* the widgets returned, the session already cleared
script_no_rerun(e, ses, rendered, button, write) ==
    LET first == main(e, ses, rendered, button, write)
        on == main(e, ses, rendered, "none", write)
    IN  IF first.rerun
        THEN [on EXCEPT !.session = first.session]
        ELSE first

\* the run st.rerun() asks for, when the run first asked for one
st_rerun(e, write, first) ==
    IF first.rerun
    THEN [main(e, first.session, first.out.rendered, "none", write)
             EXCEPT !.out.reruns = 1]
    ELSE first

\* what one interaction sets off: a run, and the run st.rerun() asks for
script(e, ses, rendered, button, write) ==
    Only({st_rerun(e, write, first) :
             first \in {main(e, ses, rendered, button, write)}})

-----------------------------------------------------------------------------
(* The tables the model loads *)

Row(region, country, molecule, product, corporation, rx_otc, year, atc1) ==
    [c \in ExpectedColumns |->
        CASE c = "Region" -> region
          [] c = "Country" -> country
          [] c = "Molecule" -> molecule
          [] c = "Product" -> product
          [] c = corp_name -> corporation
          [] c = rx_otc_name -> rx_otc
          [] c = year_name -> year
          [] OTHER -> atc1]

\* sample records: missing cells in every column, a launch year that is a
\* whole number, one that is not, one that is text and one that is missing,
\* and a country found under two regions
SampleRows ==
    <<Row("LATAM", "Chile", "Ibuprofen", "P1", "Bayer", "RX", NumCell(2020), "M"),
      Row("CAM", "Panama", NaN, "P2", NaN, "RX", Num(20215), NaN),
      Row("LATAM", NaN, "Ibuprofen", "P3", "Bayer", NaN, StrCell, "M"),
      Row("CAM", "Panama", NaN, NaN, NaN, NaN, NaNCell, NaN),
      Row(NaN, "Chile", "Ibuprofen", "P5", NaN, "RX", NumCell(2020), NaN)>>

\* len sample records in a row, starting at the start-th
SampleTable(start, len) ==
    [columns |-> ExpectedColumns,
     rows |-> [i \in 1..len |->
                SampleRows[((start + i - 2) % Len(SampleRows)) + 1]]]

SampleTables ==
    {SampleTable(start, len) : start \in 1..Len(SampleRows), len \in 1..MaxRows}

\* the table df with only the columns cols, and one column no view expects
Project(df, cols) ==
    [columns |-> cols \cup {"ID"},
     rows |-> [i \in 1..Len(df.rows) |->
                [c \in cols \cup {"ID"} |->
                    IF c = "ID" THEN ToString(i) ELSE df.rows[i][c]]]]

ColumnTables == {Project(SampleTable(1, 1), cols) : cols \in SUBSET ExpectedColumns}

\* tables of MaxFullPages full pages, and of one row more: Product numbers
\* the rows, every other Region is missing
BulkSizes ==
    {page_size(p) * MaxFullPages + d :
        p \in PageSizes \ {"Todos"}, d \in {0, 1}}

BulkTable(n) ==
    [columns |-> {"Product", "Region"},
     rows |-> [i \in 1..n |->
                [c \in {"Product", "Region"} |->
                    IF c = "Product" THEN ToString(i)
                    ELSE IF i % 2 = 1 THEN "LATAM" ELSE NaN]]]

BulkTables == {BulkTable(n) : n \in BulkSizes}

\* a workbook with the table as its English sheet
Workbook(table) ==
    [state |-> "ok", sheets |-> [k \in {"Base en ingles"} |-> table]]

\* the same, with a Spanish sheet that has none of the expected columns
Workbook2(table) ==
    [state |-> "ok",
     sheets |-> [k \in SheetOptions |->
                    IF k = "Base en ingles" THEN table ELSE Project(table, {})]]

Missing == [NoFile EXCEPT !.state = "missing"]
Unreadable == [NoFile EXCEPT !.state = "unreadable"]
HeaderOnly(table) == Workbook([table EXCEPT !.rows = <<>>])

-----------------------------------------------------------------------------
(* The state machine.  env is the default file on disk and the file the    *)
(* user has at hand to upload; session the widget values; out what the    *)
(* last run displayed.                                                     *)

FirstRun(e) ==
    \E r \in {script(e, DefaultSession, NoWidgets, "none", "stored")} :
        env = e /\ session = r.session /\ out = r.out

\* the table as the default file; the file at hand is no workbook
Envs(tables) ==
    {[disk |-> Workbook(t), upload |-> Unreadable] : t \in tables}

\* environments in which a load fails or yields nothing
FailingEnvs ==
    LET t == SampleTable(1, MaxRows)
    IN  {[disk |-> d, upload |-> u] :
            d \in {Missing, Unreadable, HeaderOnly(t), Workbook2(t)},
            u \in {Unreadable, Workbook2(t)}}

Init == \E e \in Envs(SampleTables) \cup FailingEnvs : FirstRun(e)

Interact(ses, button) ==
    \E write \in IF button = "clear" THEN SessionWrites ELSE {"stored"} :
        \E r \in {script(env, ses, out.rendered, button, write)} :
            session' = r.session /\ out' = r.out /\ UNCHANGED env

Rendered(key) == key \in DOMAIN out.rendered

\* a multiselect changes by one option per run: picked or removed
Toggle(selection, option) ==
    IF option \in selection THEN selection \ {option}
    ELSE selection \cup {option}

SelectSheet ==
    \E s \in SheetOptions : Interact([session EXCEPT !.sheet_option = s], "none")

ToggleDefaultFile ==
    Interact([session EXCEPT !.use_default_file = ~session.use_default_file],
             "none")

UploadFile ==
    /\ Rendered("file_uploader")
    /\ \E f \in {env.upload, NoFile} :
          Interact([session EXCEPT !.uploaded_file = f], "none")

SelectRegions ==
    /\ Rendered("region_filter")
    /\ \E option \in out.rendered["region_filter"] :
          Interact([session EXCEPT
                      !.region_filter = Toggle(session.region_filter, option)], "none")

SelectCountries ==
    /\ Rendered("country_filter")
    /\ \E option \in out.rendered["country_filter"] :
          Interact([session EXCEPT
                      !.country_filter = Toggle(session.country_filter, option)], "none")

SelectMolecules ==
    /\ Rendered("molecule_filter")
    /\ \E option \in out.rendered["molecule_filter"] :
          Interact([session EXCEPT
                      !.molecule_filter = Toggle(session.molecule_filter, option)], "none")

SelectRxOtc ==
    /\ Rendered("rx_otc_filter")
    /\ \E option \in out.rendered["rx_otc_filter"] :
          Interact([session EXCEPT
                      !.rx_otc_filter = Toggle(session.rx_otc_filter, option)], "none")

SelectCorporations ==
    /\ Rendered("corp_filter")
    /\ \E option \in out.rendered["corp_filter"] :
          Interact([session EXCEPT
                      !.corp_filter = Toggle(session.corp_filter, option)], "none")

MoveYearSlider ==
    /\ Rendered("year_range")
    /\ LET bounds == out.rendered["year_range"]
       IN  \E lo \in bounds[1]..bounds[2] : \E hi \in lo..bounds[2] :
              Interact([session EXCEPT !.year_range = <<lo, hi>>], "none")

ClearFilters ==
    /\ Rendered("country_filter")
    /\ Interact(session, "clear")

ExportExcel ==
    /\ Rendered("registros_por_pagina")
    /\ Interact(session, "export")

\* a click on the download button hands over the file and re-runs the script
DownloadExcel ==
    /\ out.tabla.export.made
    /\ Interact(session, "none")

SelectPageSize ==
    /\ Rendered("registros_por_pagina")
    /\ \E p \in PageSizes :
          Interact([session EXCEPT !.registros_por_pagina = p], "none")

SelectPage ==
    /\ Rendered("pagina_actual")
    /\ \E n \in 1..out.rendered["pagina_actual"] :
          Interact([session EXCEPT !.pagina_actual = n], "none")

Next ==
    \/ SelectSheet
    \/ ToggleDefaultFile
    \/ UploadFile
    \/ SelectRegions
    \/ SelectCountries
    \/ SelectMolecules
    \/ SelectRxOtc
    \/ SelectCorporations
    \/ MoveYearSlider
    \/ ClearFilters
    \/ ExportExcel
    \/ DownloadExcel
    \/ SelectPageSize
    \/ SelectPage

Spec == Init /\ [][Next]_vars

\* every subset of the expected columns missing from a one-record table
InitColumns == \E e \in Envs(ColumnTables) : FirstRun(e)

SpecColumns == InitColumns /\ [][Next]_vars

\* tables of several pages, and a one-record table with every column
InitTabla == \E e \in Envs(BulkTables \cup {SampleTable(1, 1)}) : FirstRun(e)

SpecTabla == InitTabla /\ [][Next]_vars

-----------------------------------------------------------------------------
(* Properties *)

\* the table the last run loaded, read again from the environment
Loaded == load_data(env.disk, session, out.rendered).df

\* the last run got past the filters and displayed the filtered table
Displayed == out.banner.shown

\* the conjunction of the selected predicates on one row of the loaded
\* table; a filter with nothing selected imposes none
Selected(row) ==
    LET f == out.filters
    IN  /\ f.regions = {} \/ row["Region"] \in f.regions
        /\ f.countries = {} \/ row["Country"] \in f.countries
        /\ f.molecules = {} \/ row["Molecule"] \in f.molecules
        /\ f.rx_otc = {} \/ row[rx_otc_name] \in f.rx_otc
        /\ f.corporations = {} \/ row[corp_name] \in f.corporations
        /\ year_name \in Loaded.columns =>
              /\ row[year_name].t = "num"
              /\ row[year_name].v >= 10 * f.year_range[1]
              /\ row[year_name].v <= 10 * f.year_range[2]

\* C1: the row count main displays equals the number of rows of the loaded
\* table that satisfy the conjunction of the selected predicates, and the
\* filtered rows are exactly those rows in their original order.
C1_FilteredIsConjunction ==
    Displayed =>
        /\ out.banner.shown
        /\ out.banner.n =
              Cardinality({i \in 1..Len(Loaded.rows) : Selected(Loaded.rows[i])})
        /\ out.banner.total = Len(Loaded.rows)
        /\ out.filtered_df.columns = Loaded.columns
        /\ out.filtered_df.rows = SelectSeq(Loaded.rows, Selected)

\* two filters are selected and some, not all, rows pass
C1_Witness ==
    /\ Displayed
    /\ out.filters.regions # {}
    /\ out.filters.countries # {}
    /\ out.banner.n > 0
    /\ out.banner.n < out.banner.total

\* the file the run reads holds the selected sheet
Readable(file) ==
    file.state = "ok" /\ session.sheet_option \in DOMAIN file.sheets

LoadFails ==
    IF session.use_default_file THEN ~Readable(env.disk)
    ELSE ~Readable(session.uploaded_file)

\* C2: when loading the spreadsheet fails, the run ends in the warning
\* state: an error or warning message is shown, the table is empty, neither
\* create_filters, apply_filters nor a tab renderer runs, nothing is raised.
C2_FailedLoadWarns ==
    LoadFails =>
        /\ out.status = "warning"
        /\ out.load_failed
        /\ out.messages \cap {"sidebar.error", "sidebar.warning:upload"} # {}
        /\ "warning:no_data" \in out.messages
        /\ empty(out.df)
        /\ \A i \in 1..Len(out.called) : out.called[i] = "read_excel"
        /\ out.tabs = <<>>
        /\ out.raised = None

\* an uploaded file that is no workbook
C2_Witness ==
    /\ LoadFails
    /\ ~session.use_default_file
    /\ session.uploaded_file.state = "unreadable"
    /\ "sidebar.error" \in out.messages

\* C4: the loaded table is never mutated: after every run it has the rows,
\* the cells and the order it was loaded with, and the renderers left the
\* filtered frame as apply_filters returned it.
C4_LoadedTableUnchanged ==
    /\ out.df = Loaded
    /\ out.same_frame

\* a run that filtered rows out of a table with a launch year that is no
\* number, drew the timeline and exported
C4_Witness ==
    /\ out.status = "ok"
    /\ out.tabla.export.made
    /\ Len(out.filtered_df.rows) < Len(Loaded.rows)
    /\ "chart:timeline" \in out.tabs[3].shown
    /\ \E i \in 1..Len(Loaded.rows) : Loaded.rows[i][year_name].t # "num"

\* the views that need columns: the tab, the element shown, the columns
Views ==
    {[tab |-> 1, view |-> "chart:rx_otc_pie", needs |-> {rx_otc_name}],
     [tab |-> 1, view |-> "chart:year_histogram", needs |-> {year_name}],
     [tab |-> 1, view |-> "chart:top_countries", needs |-> {"Country"}],
     [tab |-> 2, view |-> "chart:treemap", needs |-> {"Country", "Region"}],
     [tab |-> 2, view |-> "chart:country_rx_otc",
      needs |-> {"Country", rx_otc_name}],
     [tab |-> 2, view |-> "table:country_analysis", needs |-> {"Country"}],
     [tab |-> 3, view |-> "chart:timeline", needs |-> {"Molecule", year_name}],
     [tab |-> 3, view |-> "chart:top_moleculas", needs |-> {"Molecule"}],
     [tab |-> 3, view |-> "chart:atc1_pie", needs |-> {"Molecule", "ATC1"}],
     [tab |-> 4, view |-> "chart:corp_scatter",
      needs |-> {corp_name, "Molecule", "Country"}],
     [tab |-> 4, view |-> "chart:top_corps", needs |-> {corp_name}],
     [tab |-> 4, view |-> "table:corp_summary", needs |-> {corp_name}]}

\* the messages that stand for a missing column
Placeholders(col) ==
    CASE col = "Region" -> {"info:region_missing"}
      [] col = "Country" -> {"warning:country_missing"}
      [] col = "Molecule" -> {"warning:molecule_missing"}
      [] col = rx_otc_name -> {"info:rx_otc_missing"}
      [] col = corp_name -> {"warning:corporation_missing"}
      [] col = year_name -> {"info:year_missing"}
      [] col = "ATC1" -> {"info:atc1_missing"}
      [] OTHER -> {}

\* the summary metric of a column
MetricOf(col) ==
    CASE col = "Molecule" -> "Moleculas Unicas"
      [] col = "Country" -> "Paises"
      [] OTHER -> "Corporaciones"

\* C3 (fails): whatever expected columns a non-empty loaded table lacks,
\* create_filters, apply_filters and the five tab renderers complete the
\* run, no step reads a column the table does not have, and each view or
\* metric whose column is missing shows a placeholder message or N/A in
\* its place.
C3_MissingColumnsComplete ==
    Displayed =>
        /\ out.raised = None
        /\ Len(out.tabs) = 5
        /\ \A i \in 1..Len(out.tabs) : out.tabs[i].reads \subseteq Loaded.columns
        /\ Len(out.filtered_df.rows) > 0 =>
              /\ \A v \in Views :
                    LET missing == v.needs \ Loaded.columns
                        shown == out.tabs[v.tab].shown
                    IN  missing # {} =>
                           /\ v.view \notin shown
                           /\ \E c \in missing : Placeholders(c) \cap shown # {}
              /\ \A c \in {"Molecule", "Country", corp_name} \ Loaded.columns :
                    out.tabs[1].metrics[MetricOf(c)].na

\* C5: an export holds exactly the filtered rows, all of them and in order,
\* whatever the page size and the page; and a run exports only when the
\* export button was pressed.
C5_ExportIsFilteredRows ==
    [][out'.tabla.export.made =>
          /\ ExportExcel
          /\ out'.tabla.export.rows = out'.filtered_df.rows]_vars

\* an export of a filtered table of several pages, made on a later page
C5_Witness ==
    /\ out.tabla.export.made
    /\ out.filters.regions # {}
    /\ out.tabla.total_paginas > 1
    /\ out.tabla.pagina_actual > 1
    /\ Len(out.tabla.export.rows) > Len(out.tabla.df_display.rows)

\* the least k with k * p >= n
Ceil(n, p) == CHOOSE k \in 0..n : k * p >= n /\ (k - 1) * p < n

\* C6: with a numeric page size p the table of n > 0 rows has ceil(n/p)
\* pages; every page is a non-empty contiguous slice of at most p rows
\* within 1..n; the pages are disjoint and in page order make up the whole
\* table; with "Todos" the single page shows all n rows.
C6_PagesPartitionTable ==
    LET t == out.tabla
        n == Len(out.filtered_df.rows)
        p == page_size(t.registros_por_pagina)
        first(k) == page_inicio(k, p) + 1
        last(k) == page_fin(n, k, p)
    IN  (out.status = "ok" /\ n > 0) =>
           IF t.registros_por_pagina = "Todos"
           THEN /\ t.total_paginas = 1
                /\ t.pagina_actual = 1
                /\ t.df_display.rows = out.filtered_df.rows
           ELSE /\ t.total_paginas = Ceil(n, p)
                /\ t.pagina_actual \in 1..t.total_paginas
                /\ t.inicio + 1 = first(t.pagina_actual)
                /\ t.fin = last(t.pagina_actual)
                /\ t.df_display.rows =
                      [i \in 1..(t.fin - t.inicio) |->
                          out.filtered_df.rows[t.inicio + i]]
                /\ \A k \in 1..t.total_paginas :
                      /\ 1 <= first(k) /\ first(k) <= last(k) /\ last(k) <= n
                      /\ last(k) - first(k) + 1 <= p
                      /\ k > 1 => first(k) = last(k - 1) + 1
                /\ first(1) = 1
                /\ last(t.total_paginas) = n

\* the last of several pages, shorter than the page size
C6_Witness ==
    /\ out.status = "ok"
    /\ out.tabla.registros_por_pagina = "500"
    /\ out.tabla.total_paginas > 1
    /\ out.tabla.pagina_actual = out.tabla.total_paginas
    /\ Len(out.tabla.df_display.rows) = 1

\* the non-null values of a column of the loaded table
Values(col) ==
    IF col \in Loaded.columns
    THEN {Loaded.rows[i][col] : i \in 1..Len(Loaded.rows)} \ {NaN}
    ELSE {}

FilterColumn(key) ==
    CASE key = "region_filter" -> "Region"
      [] key = "country_filter" -> "Country"
      [] key = "molecule_filter" -> "Molecule"
      [] key = "rx_otc_filter" -> rx_otc_name
      [] key = "corp_filter" -> corp_name

FilterKeys ==
    {"region_filter", "country_filter", "molecule_filter", "rx_otc_filter",
     "corp_filter"}

\* C7: every option a sidebar filter offers is a non-null value of its
\* column of the loaded table; with regions selected the country options
\* are exactly the non-null countries of the rows of those regions, and
\* all non-null countries otherwise; so every country offered next to a
\* region selection has a row matching both.
C7_OptionsFromColumns ==
    Displayed =>
        LET regions == out.filters.regions
            paises == out.rendered["country_filter"]
            matches(c) ==
                {i \in 1..Len(Loaded.rows) :
                    /\ Loaded.rows[i]["Region"] \in regions
                    /\ Loaded.rows[i]["Country"] = c}
        IN  /\ \A key \in FilterKeys \cap DOMAIN out.rendered :
                  /\ NaN \notin out.rendered[key]
                  /\ out.rendered[key] \subseteq Values(FilterColumn(key))
            /\ regions = {} => paises = Values("Country")
            /\ regions # {} =>
                  /\ \A c \in paises : matches(c) # {}
                  /\ \A c \in Values("Country") : matches(c) # {} => c \in paises

\* a region selection that narrows the country options
C7_Witness ==
    /\ Displayed
    /\ out.filters.regions # {}
    /\ out.rendered["country_filter"] # {}
    /\ out.rendered["country_filter"] # Values("Country")

C9_SameCountEverywhere ==
    (Displayed /\ Len(out.filtered_df.rows) > 0) =>
        /\ out.called =
              <<"read_excel", "create_filters", "apply_filters", "resumen",
                "pais", "moleculas", "corporaciones", "tabla">>
        /\ out.same_frame
        /\ Len(out.tabs) = 5
        /\ out.tabs[1].metrics["Total Productos"].n = out.banner.n
        /\ out.tabs[5].metrics["Datos Filtrados"] = out.banner.n
        /\ out.banner.n <= Len(Loaded.rows)

\* the first five conjuncts of Selected
OtherSelected(row) ==
    LET f == out.filters
    IN  /\ f.regions = {} \/ row["Region"] \in f.regions
        /\ f.countries = {} \/ row["Country"] \in f.countries
        /\ f.molecules = {} \/ row["Molecule"] \in f.molecules
        /\ f.rx_otc = {} \/ row[rx_otc_name] \in f.rx_otc
        /\ f.corporations = {} \/ row[corp_name] \in f.corporations

InFiltered(row) ==
    \E j \in 1..Len(out.filtered_df.rows) : out.filtered_df.rows[j] = row

\* C10: when the launch-year column exists the year predicate is always
\* applied: every filtered row has a numeric launch year within the range;
\* with the slider at its default every row with a whole-number year passes
\* it; and with no numeric value in the column the range is (2000, 2025)
\* and the filtered table is empty.
C10_YearAlwaysApplied ==
    (Displayed /\ year_name \in Loaded.columns) =>
        LET f == out.filters
            rows == Loaded.rows
            numeric == {i \in 1..Len(rows) : rows[i][year_name].t = "num"}
        IN  /\ f.year_column = year_name
            /\ \A j \in 1..Len(out.filtered_df.rows) :
                  LET cell == out.filtered_df.rows[j][year_name]
                  IN  /\ cell.t = "num"
                      /\ cell.v >= 10 * f.year_range[1]
                      /\ cell.v <= 10 * f.year_range[2]
            /\ (numeric # {} /\ f.year_range = out.rendered["year_range"]) =>
                  \A i \in numeric :
                     (rows[i][year_name].v % 10 = 0 /\ OtherSelected(rows[i]))
                        => InFiltered(rows[i])
            /\ numeric = {} =>
                  /\ f.year_range = <<2000, 2025>>
                  /\ out.filtered_df.rows = <<>>

\* the slider at its default, a whole-number year kept and a year that is
\* no whole number left out
C10_Witness ==
    /\ Displayed
    /\ year_name \in Loaded.columns
    /\ "year_range" \in DOMAIN out.rendered
    /\ out.filters.year_range = out.rendered["year_range"]
    /\ \E i \in 1..Len(Loaded.rows) :
          /\ Loaded.rows[i][year_name].t = "num"
          /\ Loaded.rows[i][year_name].v % 10 # 0
          /\ ~InFiltered(Loaded.rows[i])
    /\ \E i \in 1..Len(Loaded.rows) :
          /\ Loaded.rows[i][year_name].v % 10 = 0
          /\ InFiltered(Loaded.rows[i])

\* a table with no numeric launch year
C10_FallbackReached ==
    /\ Displayed
    /\ year_name \in Loaded.columns
    /\ out.filters.year_range = <<2000, 2025>>

\* the year predicate alone on one row, as the run after the step applies it
YearOnly(row) ==
    out'.filters.year_column # None =>
        /\ row[year_name].t = "num"
        /\ row[year_name].v >= 10 * out'.filters.year_range[1]
        /\ row[year_name].v <= 10 * out'.filters.year_range[2]

\* C11 (fails): a press of the clear-filters button empties the five
\* multiselect selections and triggers one rerun, the year range staying
\* as it was; the rerun shows the table restricted by the year range only
\* and does not clear or rerun again.
C11_ClearThenYearOnly ==
    [][ClearFilters =>
          /\ out'.reruns = 1
          /\ out'.status # "rerun"
          /\ out'.banner.shown
          /\ out'.filters.regions = {}
          /\ out'.filters.countries = {}
          /\ out'.filters.molecules = {}
          /\ out'.filters.rx_otc = {}
          /\ out'.filters.corporations = {}
          /\ session'.region_filter = {}
          /\ session'.country_filter = {}
          /\ session'.molecule_filter = {}
          /\ session'.rx_otc_filter = {}
          /\ session'.corp_filter = {}
          /\ out'.filters.year_range = out.filters.year_range
          /\ out'.filtered_df.rows = SelectSeq(out'.df.rows, YearOnly)]_vars

\* C12: when the filtered table is empty, each of the five tab renderers
\* shows the no-data warning and returns: no metric, aggregate, chart,
\* page count, page slice or export is computed, no column is read, no
\* page widget is rendered and nothing is raised.
C12_EmptyTableOnlyWarns ==
    (Displayed /\ Len(out.filtered_df.rows) = 0) =>
        /\ Len(out.tabs) = 5
        /\ \A i \in 1..5 :
              /\ out.tabs[i].shown = {"warning:no_data"}
              /\ out.tabs[i].computed = {}
              /\ out.tabs[i].reads = {}
              /\ out.tabs[i].metrics = NoMetrics
              /\ out.tabs[i].raised = None
        /\ ~out.tabla.export.made
        /\ out.tabla.rendered = NoWidgets
        /\ out.raised = None

\* selections that leave no row of a loaded table with rows
C12_Witness ==
    /\ Displayed
    /\ Len(Loaded.rows) > 0
    /\ Len(out.filtered_df.rows) = 0
    /\ out.filters.regions # {}
    /\ Len(out.tabs) = 5

=============================================================================
